---- MODULE Spec2Model ----
(***************************************************************************)
(* VGA text-mode writer of 3.vga-text-mode/src/vga_buffer.rs.              *)
(*                                                                         *)
(* The Writer's methods are translated statement by statement: every       *)
(* volatile cell read and cell write is one step, so that an interleaving  *)
(* of two callers can fall between any two cell accesses.  The             *)
(* specifications share these steps:                                       *)
(*   Spec           the program: callers print through print!/println!,    *)
(*                  that is through _print and the spin lock of WRITER;    *)
(*   SpecWriter     one owner of a Writer calling write_byte, write_string *)
(*                  and new_line directly, and assigning color_code;       *)
(*   SpecFirst      each caller's first print call, WRITER not yet built;  *)
(*   SpecScenario   two given texts written to a cleared screen;           *)
(*   SpecColor      ColorCode::new on every pair of colors;                *)
(*   SpecPanic      main.rs: panics inside and outside a print call, and   *)
(*                  the panic handler, with the processor's fairness;      *)
(*   SpecInterrupt  an interrupt handler that prints on the same thread.   *)
(* Variables marked "history" are not program state: they record what the  *)
(* steps did, so that properties of a whole call can be stated.            *)
(***************************************************************************)
EXTENDS Integers, Sequences, FiniteSets, TLC

\* ---------------------------------------------------------------- bounds
\* The grid is 25 x 80 in the source; the model scales it down.
BUFFER_HEIGHT == 2
BUFFER_WIDTH == 3
\* Number of logical callers of print!/println! in Spec.
NumCallers == 2
\* Total number of bytes, line breaks and attribute changes requested.
MaxWork == 4
\* Total number of bytes and line breaks the callers of Spec print.
MaxPrint == 2
\* Number of texts written in the scenario of two texts.
MaxTexts == 2

\* ------------------------------------------------------- program constants
NEWLINE == 10
SPACE == 32
TILDE == 126
PLACEHOLDER == 254
Black == 0
Blue == 1
Yellow == 14
White == 15

Rows == 0 .. (BUFFER_HEIGHT - 1)
Cols == 0 .. (BUFFER_WIDTH - 1)
Callers == 1 .. NumCallers

RECURSIVE BitOr(_, _, _)
\* a | b on the low n bits
BitOr(a, b, n) ==
    IF n = 0 THEN 0
    ELSE (IF (a % 2 = 1) \/ (b % 2 = 1) THEN 1 ELSE 0)
         + 2 * BitOr(a \div 2, b \div 2, n - 1)

\* (x as u8) << k
Shl8(x, k) == (x * (2 ^ k)) % 256

\* the two colors in each other's place
ColorCodeNewSwapped(background, foreground) ==
    BitOr(Shl8(foreground, 4), background, 8)

\* ColorCode::new
ColorCodeNew(background, foreground) == BitOr(Shl8(background, 4), foreground, 8)

ScreenChar(ch, cc) == [ascii_character |-> ch, color_code |-> cc]

\* The color the singleton is built with, and the other one an owner may assign.
DefaultColor == ColorCodeNew(Black, Yellow)
OtherColor == ColorCodeNew(Blue, White)
Colors == {DefaultColor, OtherColor}

\* Input bytes: newline, 'A', '~' (last printable), DEL and 0x1f (unsupported).
Bytes == {NEWLINE, 65, TILDE, 127, 31}

RECURSIVE SeqsUpTo(_, _)
SeqsUpTo(S, n) ==
    IF n = 0 THEN {<<>>}
    ELSE LET shorter == SeqsUpTo(S, n - 1)
         IN  shorter \cup {Append(t, x) : t \in shorter, x \in S}

VARIABLES
    buffer,           \* Buffer.chars: the memory-mapped grid
    column_position,  \* Writer.column_position
    color_code,       \* Writer.color_code
    locked,           \* the spin::Mutex of WRITER
    pc,               \* each caller's position in the code
    stack,            \* each caller's return addresses
    loc,              \* each caller's locals
    access,           \* history: the cell access of the last step, if any
    op,               \* history: each caller's current or last call
    pre,              \* history: writer and grid when the call began to write
    log,              \* history: bytes handed to write_byte by the call
    scrolls,          \* history: new_line runs started by the call
    nlrun,            \* history: new_line runs completed in a row
    run,              \* history: bytes written since column 0, and the grid then
    lastput,          \* history: column and cell of the last write_byte cell write
    work,             \* history: budget used
    once,             \* the state of WRITER's lazy initialisation
    suspended,        \* the callers a handler runs on top of, on their thread
    logby,            \* history: who handed each byte of log to write_byte
    acq,              \* history: lock acquisitions of each caller's current call
    inits             \* history: runs of WRITER's initialiser

progVars == <<buffer, column_position, color_code, locked, pc, stack, loc, once, suspended>>
histVars == <<access, op, pre, log, scrolls, nlrun, run, lastput, work, logby, acq, inits>>
vars == <<progVars, histVars>>

NoAccess == [kind |-> "none"]
NoOp == [name |-> "none"]
NoRun == [active |-> FALSE]
NoLocals == [args |-> <<>>, s |-> <<>>, byte |-> 0, row |-> 0, col |-> 0,
             character |-> ScreenChar(0, 0)]

Snapshot == [buffer |-> buffer, column_position |-> column_position,
             color_code |-> color_code]

\* What the display memory may hold before the first write: whatever the
\* firmware left there.  Two contents: every cell different, and a blank screen.
BootPattern == [r \in Rows |-> [c \in Cols |->
                   ScreenChar(128 + r * BUFFER_WIDTH + c, ColorCodeNew(Black, 7))]]
BootBlank == [r \in Rows |-> [c \in Cols |-> ScreenChar(SPACE, ColorCodeNew(Black, 7))]]
BootBuffers == {BootPattern, BootBlank}

\* ------------------------------------------------------------ small steps
Jump(p, label) == pc' = [pc EXCEPT ![p] = label]

Push(p, label) == stack' = [stack EXCEPT ![p] = <<label>> \o @]

\* return to the caller's continuation
Return(p) ==
    /\ pc' = [pc EXCEPT ![p] = Head(stack[p])]
    /\ stack' = [stack EXCEPT ![p] = Tail(@)]

InBounds(r, c) == r \in Rows /\ c \in Cols

\* chars[r][c].write(v); an index outside the array panics before any store
Store(r, c, v) ==
    buffer' = IF InBounds(r, c) THEN [buffer EXCEPT ![r][c] = v] ELSE buffer

\* chars[r][c].read(); an index outside the array panics and reads nothing
Load(r, c) == IF InBounds(r, c) THEN buffer[r][c] ELSE ScreenChar(0, 0)

Touch(p, kind, r, c, v, viaText) ==
    access' = [kind |-> kind, by |-> p, row |-> r, col |-> c, val |-> v,
               text |-> viaText]

RECURSIVE Flatten(_)
Flatten(frags) == IF frags = <<>> THEN <<>> ELSE Head(frags) \o Flatten(Tail(frags))

\* whether p is inside write_string (its frame is on p's stack, or p is at its loop)
InWriteString(p) ==
    \/ pc[p] = "write_string"
    \/ \E i \in 1 .. Len(stack[p]) : stack[p][i] = "write_string"

\* ----------------------------------------------- vga_buffer.rs, the Writer
\* the printable range with its upper end left out
SupportedExclusive(b) == (b >= SPACE /\ b < TILDE) \/ b = NEWLINE

\* write_string's match arm 0x20..=0x7e | b'\n'
Supported(b) == (b >= SPACE /\ b <= TILDE) \/ b = NEWLINE

\* the byte write_string hands to write_byte
Substitute(b) == IF Supported(b) THEN b ELSE PLACEHOLDER

\* a wrap taken as soon as the last column is reached
MustWrapEager(column) == column >= BUFFER_WIDTH - 1

\* the wrap test off by one
MustWrapLate(column) == column > BUFFER_WIDTH

\* write_byte's test before the cell write
MustWrap(column) == column >= BUFFER_WIDTH

\* a blank of NUL instead of ' '
BlankNul(cc) == ScreenChar(0, cc)

\* clear_row's blank
Blank(cc) == ScreenChar(SPACE, cc)

\* a copy that takes the writer's current attribute
CopiedRecolored(character, cc) == ScreenChar(character.ascii_character, cc)

\* the cell new_line stores in the row above
Copied(character, cc) == character

\* a copy onto the row it was read from
AboveSame(r) == r

\* the row new_line stores it in
Above(r) == r - 1

\* a column that is not advanced
AdvanceStuck(column) == column

\* self.column_position += 1
Advance(column) == column + 1

\* for byte in s.bytes() { match byte { ... => self.write_byte(..) } }
write_string(p) ==
    /\ pc[p] = "write_string"
    /\ IF loc[p].s = <<>>
       THEN /\ Return(p)
            /\ UNCHANGED loc
       ELSE /\ loc' = [loc EXCEPT ![p].byte = Substitute(Head(loc[p].s)),
                                  ![p].s = Tail(loc[p].s)]
            /\ Push(p, "write_string")
            /\ Jump(p, "write_byte")
    /\ access' = NoAccess
    /\ UNCHANGED <<buffer, column_position, color_code, locked>>
    /\ UNCHANGED <<op, pre, log, scrolls, nlrun, run, work, lastput>>
    /\ UNCHANGED <<once, suspended, logby, acq, inits>>

\* match byte { b'\n' => self.new_line(), byte => { if ... { self.new_line(); } ..
write_byte(p) ==
    /\ pc[p] = "write_byte"
    /\ IF loc[p].byte = NEWLINE
       THEN /\ Jump(p, "new_line")
            /\ UNCHANGED stack
       ELSE IF MustWrap(column_position)
       THEN /\ Jump(p, "new_line")
            /\ Push(p, "put")
       ELSE /\ Jump(p, "put")
            /\ UNCHANGED stack
    /\ log' = Append(log, loc[p].byte)
    /\ run' = IF loc[p].byte = NEWLINE THEN NoRun
              ELSE IF column_position = 0
              THEN [active |-> TRUE, base |-> buffer, bytes |-> <<loc[p].byte>>,
                    scrolls |-> 0]
              ELSE IF run.active /\ Len(run.bytes) <= BUFFER_WIDTH
              THEN [run EXCEPT !.bytes = Append(@, loc[p].byte)]
              ELSE NoRun
    /\ access' = NoAccess
    /\ UNCHANGED <<buffer, column_position, color_code, locked, loc>>
    /\ UNCHANGED <<op, pre, scrolls, nlrun, work, lastput>>
    /\ logby' = Append(logby, p)
    /\ UNCHANGED <<once, suspended, acq, inits>>

\* new_line: for row in 1..BUFFER_HEIGHT { for col in 0..BUFFER_WIDTH {
new_line(p) ==
    /\ pc[p] = "new_line"
    /\ IF 1 < BUFFER_HEIGHT
       THEN /\ loc' = [loc EXCEPT ![p].row = 1, ![p].col = 0]
            /\ Jump(p, "copy_read")
       ELSE \* no row to copy: self.clear_row(BUFFER_HEIGHT - 1); let blank = ..
            /\ loc' = [loc EXCEPT ![p].row = BUFFER_HEIGHT - 1, ![p].col = 0,
                                  ![p].character = Blank(color_code)]
            /\ Jump(p, "clear_row")
    /\ scrolls' = scrolls + 1
    /\ run' = IF run.active THEN [run EXCEPT !.scrolls = @ + 1] ELSE run
    /\ access' = NoAccess
    /\ UNCHANGED <<buffer, column_position, color_code, locked, stack>>
    /\ UNCHANGED <<op, pre, log, nlrun, work, lastput>>
    /\ UNCHANGED <<once, suspended, logby, acq, inits>>

\* let character = self.buffer.chars[row][col].read();
new_line_read(p) ==
    /\ pc[p] = "copy_read"
    /\ loc' = [loc EXCEPT ![p].character = Load(loc[p].row, loc[p].col)]
    /\ Jump(p, "copy_write")
    /\ Touch(p, "read", loc[p].row, loc[p].col, Load(loc[p].row, loc[p].col), FALSE)
    /\ UNCHANGED <<buffer, column_position, color_code, locked, stack>>
    /\ UNCHANGED <<op, pre, log, scrolls, nlrun, run, work, lastput>>
    /\ UNCHANGED <<once, suspended, logby, acq, inits>>

\* self.buffer.chars[row - 1][col].write(character); and the loops' next index
new_line_write(p) ==
    /\ pc[p] = "copy_write"
    /\ Store(Above(loc[p].row), loc[p].col, Copied(loc[p].character, color_code))
    /\ Touch(p, "write", Above(loc[p].row), loc[p].col,
             Copied(loc[p].character, color_code), FALSE)
    /\ IF loc[p].col + 1 < BUFFER_WIDTH
       THEN /\ loc' = [loc EXCEPT ![p].col = @ + 1]
            /\ Jump(p, "copy_read")
       ELSE IF loc[p].row + 1 < BUFFER_HEIGHT
       THEN /\ loc' = [loc EXCEPT ![p].row = @ + 1, ![p].col = 0]
            /\ Jump(p, "copy_read")
       ELSE \* self.clear_row(BUFFER_HEIGHT - 1); let blank = ScreenChar {..};
            /\ loc' = [loc EXCEPT ![p].row = BUFFER_HEIGHT - 1, ![p].col = 0,
                                  ![p].character = Blank(color_code)]
            /\ Jump(p, "clear_row")
    /\ UNCHANGED <<column_position, color_code, locked, stack>>
    /\ UNCHANGED <<op, pre, log, scrolls, nlrun, run, work, lastput>>
    /\ UNCHANGED <<once, suspended, logby, acq, inits>>

\* for col in 0..BUFFER_WIDTH { self.buffer.chars[row][col].write(blank); }
clear_row(p) ==
    /\ pc[p] = "clear_row"
    /\ Store(loc[p].row, loc[p].col, loc[p].character)
    /\ Touch(p, "write", loc[p].row, loc[p].col, loc[p].character, FALSE)
    /\ IF loc[p].col + 1 < BUFFER_WIDTH
       THEN /\ loc' = [loc EXCEPT ![p].col = @ + 1]
            /\ UNCHANGED pc
       ELSE /\ loc' = [loc EXCEPT ![p].row = 0, ![p].col = 0,
                                  ![p].character = ScreenChar(0, 0)]
            /\ Jump(p, "new_line_end")
    /\ UNCHANGED <<column_position, color_code, locked, stack>>
    /\ UNCHANGED <<op, pre, log, scrolls, nlrun, run, work, lastput>>
    /\ UNCHANGED <<once, suspended, logby, acq, inits>>

\* self.column_position = 0; and new_line returns
new_line_end(p) ==
    /\ pc[p] = "new_line_end"
    /\ column_position' = 0
    /\ Return(p)
    /\ nlrun' = nlrun + 1
    /\ access' = NoAccess
    /\ UNCHANGED <<buffer, color_code, locked, loc>>
    /\ UNCHANGED <<op, pre, log, scrolls, run, work, lastput>>
    /\ UNCHANGED <<once, suspended, logby, acq, inits>>

\* self.buffer.chars[row][col].write(ScreenChar {..}); self.column_position += 1;
write_byte_store(p) ==
    /\ pc[p] = "put"
    /\ Store(BUFFER_HEIGHT - 1, column_position, ScreenChar(loc[p].byte, color_code))
    /\ Touch(p, "write", BUFFER_HEIGHT - 1, column_position,
             ScreenChar(loc[p].byte, color_code), InWriteString(p))
    /\ column_position' = Advance(column_position)
    /\ Return(p)
    /\ nlrun' = 0
    /\ lastput' = [col |-> column_position, val |-> ScreenChar(loc[p].byte, color_code)]
    /\ UNCHANGED <<color_code, locked, loc>>
    /\ UNCHANGED <<op, pre, log, scrolls, run, work>>
    /\ UNCHANGED <<once, suspended, logby, acq, inits>>

\* ------------------------------------- vga_buffer.rs, the locked singleton
\* a lock whose compare-and-swap always succeeds
LockFreeAlways == TRUE

\* the test of spin::Mutex::lock's compare-and-swap
LockFree == ~locked

\* println! without its line break
PrintlnArgsNoBreak(frags) == frags

\* println!: print!("{}\n", format_args!(..)) appends the line break
PrintlnArgs(frags) == Append(frags, <<NEWLINE>>)

Cost(frags, ln) == Len(Flatten(frags)) + (IF ln THEN 1 ELSE 0)

\* The bytes callers print: newline and DEL (unsupported); 'A' in a second fragment.
PrintBytes == {NEWLINE, 127}

\* The argument lists of a call: the rendered text in one fragment, or in two
\* as in println!("Hello World{}", "!").
ArgLists(n) ==
    LET texts == SeqsUpTo(PrintBytes, n)
    IN  {<<t>> : t \in texts} \cup {<<t, <<65>>>> : t \in texts \ {<<>>}}

\* print!(..) or println!(..) expands to a call of _print(args)
EnterPrint(p, frags, ln) ==
    /\ pc[p] = "idle"
    /\ work' = work + Cost(frags, ln)
    /\ loc' = [loc EXCEPT ![p].args = IF ln THEN PrintlnArgs(frags) ELSE frags]
    /\ op' = [op EXCEPT ![p] = [name |-> IF ln THEN "println" ELSE "print",
                                text |-> Flatten(frags)]]
    /\ Jump(p, "lock")
    /\ access' = NoAccess
    /\ UNCHANGED <<buffer, column_position, color_code, locked, stack>>
    /\ UNCHANGED <<pre, log, scrolls, nlrun, run, lastput>>
    /\ acq' = [acq EXCEPT ![p] = 0]
    /\ UNCHANGED <<once, suspended, logby, inits>>

\* a call of print! or println! within the budget of Spec
PrintCall(p, frags, ln) ==
    /\ work + Cost(frags, ln) <= MaxPrint
    /\ EnterPrint(p, frags, ln)

\* the initialiser run although another caller is already running it
OnceUnfinished == once # "COMPLETE"

\* Once::call_once's compare-and-swap from INCOMPLETE succeeds
OnceIncomplete == once = "INCOMPLETE"

\* the value of a Writer field while WRITER is not yet built
NotBuilt == -1

\* WRITER's first dereference: this caller is the one to run the initialiser
OnceBegin(p) ==
    /\ pc[p] = "lock"
    /\ OnceIncomplete
    /\ once' = "RUNNING"
    /\ Jump(p, "init")
    /\ access' = NoAccess
    /\ UNCHANGED <<buffer, column_position, color_code, locked, stack, loc, suspended>>
    /\ UNCHANGED <<op, pre, log, scrolls, nlrun, run, lastput, work, logby, acq, inits>>

\* Mutex::new(Writer { column_position: 0, color_code: ColorCode::new(..), .. })
OnceInit(p) ==
    /\ pc[p] = "init"
    /\ column_position' = 0
    /\ color_code' = ColorCodeNew(Black, Yellow)
    /\ locked' = FALSE
    /\ once' = "COMPLETE"
    /\ inits' = inits + 1
    /\ Jump(p, "lock")
    /\ access' = NoAccess
    /\ UNCHANGED <<buffer, stack, loc, suspended>>
    /\ UNCHANGED <<op, pre, log, scrolls, nlrun, run, lastput, work, logby, acq>>

\* a dereference while another caller runs the initialiser: wait for it
OnceSpin(p) ==
    /\ pc[p] = "lock"
    /\ once = "RUNNING"
    /\ UNCHANGED vars

\* WRITER.lock(): the compare-and-swap succeeds
Lock(p) ==
    /\ pc[p] = "lock"
    /\ once = "COMPLETE"
    /\ LockFree
    /\ locked' = TRUE
    /\ Jump(p, "write_fmt")
    /\ pre' = Snapshot
    /\ log' = <<>>
    /\ scrolls' = 0
    /\ access' = NoAccess
    /\ UNCHANGED <<buffer, column_position, color_code, stack, loc>>
    /\ UNCHANGED <<op, nlrun, run, work, lastput>>
    /\ logby' = <<>>
    /\ acq' = [acq EXCEPT ![p] = @ + 1]
    /\ UNCHANGED <<once, suspended, inits>>

\* WRITER.lock(): the compare-and-swap fails and the caller tries again
Spin(p) ==
    /\ pc[p] = "lock"
    /\ once = "COMPLETE"
    /\ ~LockFree
    /\ UNCHANGED vars

\* write_fmt on a guard that is dropped before the fragments are written
write_fmt_unguarded(p) ==
    /\ pc[p] = "write_fmt"
    /\ IF loc[p].args = <<>>
       THEN /\ Jump(p, "unlock")
            /\ UNCHANGED <<stack, loc, locked>>
       ELSE /\ loc' = [loc EXCEPT ![p].s = Head(loc[p].args),
                                  ![p].args = Tail(loc[p].args)]
            /\ Push(p, "write_fmt")
            /\ Jump(p, "write_string")
            /\ locked' = FALSE
    /\ access' = NoAccess
    /\ UNCHANGED <<buffer, column_position, color_code>>
    /\ UNCHANGED <<op, pre, log, scrolls, nlrun, run, work, lastput>>
    /\ UNCHANGED <<once, suspended, logby, acq, inits>>

\* write_fmt(args): one write_str per fragment, then Ok(())
write_fmt(p) ==
    /\ pc[p] = "write_fmt"
    /\ IF loc[p].args = <<>>
       THEN /\ Jump(p, "unlock")
            /\ UNCHANGED <<stack, loc>>
       ELSE /\ loc' = [loc EXCEPT ![p].s = Head(loc[p].args),
                                  ![p].args = Tail(loc[p].args)]
            /\ Push(p, "write_fmt")
            /\ Jump(p, "write_string")
    /\ access' = NoAccess
    /\ UNCHANGED <<buffer, column_position, color_code, locked>>
    /\ UNCHANGED <<op, pre, log, scrolls, nlrun, run, work, lastput>>
    /\ UNCHANGED <<once, suspended, logby, acq, inits>>

\* the MutexGuard is dropped at the end of _print's statement
Unlock(p) ==
    /\ pc[p] = "unlock"
    /\ locked' = FALSE
    /\ Jump(p, "idle")
    /\ loc' = [loc EXCEPT ![p] = NoLocals]
    /\ access' = NoAccess
    /\ UNCHANGED <<buffer, column_position, color_code, stack>>
    /\ UNCHANGED <<op, pre, log, scrolls, nlrun, run, work, lastput>>
    /\ UNCHANGED <<once, suspended, logby, acq, inits>>

\* ------------------------------------------- the Writer used by its owner
Owner == 1

BeginCall(record) ==
    /\ pc[Owner] = "idle"
    /\ op' = [op EXCEPT ![Owner] = record]
    /\ pre' = Snapshot
    /\ log' = <<>>
    /\ scrolls' = 0
    /\ Push(Owner, "idle")
    /\ access' = NoAccess
    /\ logby' = <<>>
    /\ UNCHANGED <<once, suspended, acq, inits>>

\* writer.write_byte(b)
CallWriteByte(b) ==
    /\ work + 1 <= MaxWork
    /\ work' = work + 1
    /\ BeginCall([name |-> "write_byte", byte |-> b])
    /\ loc' = [loc EXCEPT ![Owner] = [NoLocals EXCEPT !.byte = b]]
    /\ Jump(Owner, "write_byte")
    /\ UNCHANGED <<buffer, column_position, color_code, locked, nlrun, run, lastput>>

\* the call writer.write_string(record.text) begins
EnterWriteString(record) ==
    /\ BeginCall(record)
    /\ loc' = [loc EXCEPT ![Owner] = [NoLocals EXCEPT !.s = record.text]]
    /\ Jump(Owner, "write_string")
    /\ UNCHANGED <<buffer, column_position, color_code, locked, nlrun, run, lastput>>

\* writer.write_string(t)
CallWriteString(t) ==
    /\ work + Len(t) <= MaxWork
    /\ work' = work + Len(t)
    /\ EnterWriteString([name |-> "write_string", text |-> t])

\* writer.new_line()
CallNewLine ==
    /\ work + 1 <= MaxWork
    /\ work' = work + 1
    /\ BeginCall([name |-> "new_line"])
    /\ loc' = [loc EXCEPT ![Owner] = NoLocals]
    /\ Jump(Owner, "new_line")
    /\ run' = NoRun
    /\ UNCHANGED <<buffer, column_position, color_code, locked, nlrun, lastput>>

\* writer.color_code = c
SetColor(c) ==
    /\ pc[Owner] = "idle"
    /\ c # color_code
    /\ work + 1 <= MaxWork
    /\ work' = work + 1
    /\ color_code' = c
    /\ op' = [op EXCEPT ![Owner] = [name |-> "color", from |-> color_code]]
    /\ pre' = Snapshot
    /\ log' = <<>>
    /\ scrolls' = 0
    /\ nlrun' = 0
    /\ access' = NoAccess
    /\ UNCHANGED <<buffer, column_position, locked, pc, stack, loc, run, lastput>>
    /\ logby' = <<>>
    /\ UNCHANGED <<once, suspended, acq, inits>>

\* ---------------------------------------------------------- specifications
\* no caller has called anything yet
AtRest ==
    /\ pc = [p \in Callers |-> "idle"]
    /\ stack = [p \in Callers |-> <<>>]
    /\ loc = [p \in Callers |-> NoLocals]
    /\ suspended = {}
    /\ access = NoAccess
    /\ op = [p \in Callers |-> NoOp]
    /\ pre = Snapshot
    /\ log = <<>>
    /\ scrolls = 0
    /\ nlrun = 0
    /\ run = NoRun
    /\ lastput = NoAccess
    /\ work = 0
    /\ logby = <<>>
    /\ acq = [p \in Callers |-> 0]

Init ==
    /\ buffer \in BootBuffers
    /\ column_position = 0
    /\ color_code = DefaultColor
    /\ locked = FALSE
    /\ once = "COMPLETE"
    /\ inits = 1
    /\ AtRest

WriterStep(p) ==
    \/ write_string(p)
    \/ write_byte(p)
    \/ new_line(p)
    \/ new_line_read(p)
    \/ new_line_write(p)
    \/ clear_row(p)
    \/ new_line_end(p)
    \/ write_byte_store(p)

Next ==
    \/ \E p \in Callers : \E ln \in BOOLEAN :
          \E frags \in ArgLists(MaxPrint - work) : PrintCall(p, frags, ln)
    \/ \E p \in Callers : Lock(p)
    \/ \E p \in Callers : Spin(p)
    \/ \E p \in Callers : write_fmt(p)
    \/ \E p \in Callers : WriterStep(p)
    \/ \E p \in Callers : Unlock(p)

Spec == Init /\ [][Next]_vars

NextWriter ==
    \/ \E b \in Bytes \cup {PLACEHOLDER} : CallWriteByte(b)
    \/ \E t \in SeqsUpTo(Bytes, MaxWork - work) : CallWriteString(t)
    \/ CallNewLine
    \/ \E c \in Colors : SetColor(c)
    \/ WriterStep(Owner)

SpecWriter == Init /\ [][NextWriter]_vars

\* --------------------------------------- each caller's first call of _print
\* The program before anything has touched WRITER.
InitLazy ==
    /\ buffer \in BootBuffers
    /\ column_position = NotBuilt
    /\ color_code = NotBuilt
    /\ locked = FALSE
    /\ once = "INCOMPLETE"
    /\ inits = 0
    /\ AtRest

\* a caller's first print! or println!, of a text of at most two fragments
FirstCall(p, frags, ln) ==
    /\ op[p] = NoOp
    /\ EnterPrint(p, frags, ln)

NextFirst ==
    \/ \E p \in Callers : \E ln \in BOOLEAN :
          \E frags \in ArgLists(1) : FirstCall(p, frags, ln)
    \/ \E p \in Callers : OnceBegin(p)
    \/ \E p \in Callers : OnceInit(p)
    \/ \E p \in Callers : OnceSpin(p)
    \/ \E p \in Callers : Lock(p)
    \/ \E p \in Callers : Spin(p)
    \/ \E p \in Callers : write_fmt(p)
    \/ \E p \in Callers : WriterStep(p)
    \/ \E p \in Callers : Unlock(p)

SpecFirst == InitLazy /\ [][NextFirst]_vars

\* ------------------------------------------------- main.rs, the panic path
\* One thread of control runs its callers nested: a handler runs on top of
\* the caller it interrupted, which does not run until the handler returns.
\* The caller whose code panics, and the context the handler runs in.
Main == 1
Handler == 2
Threads == Callers \ {Handler}

Running(p) == p \notin suspended

\* the rendered PanicInfo: one glyph for "panicked at 'Some panic message', .."
Info == <<33>>

\* _start: panic!("Some panic message"), after any number of print calls
panic_explicit ==
    /\ pc[Main] = "idle"
    /\ Running(Main)
    /\ suspended' = suspended \cup {Main}
    /\ access' = NoAccess
    /\ UNCHANGED <<buffer, column_position, color_code, locked, pc, stack, loc, once>>
    /\ UNCHANGED <<op, pre, log, scrolls, nlrun, run, lastput, work, logby, acq, inits>>

\* _print: write_fmt(args) returned Err, because the fmt of an argument did,
\* before a fragment or after the last one; unwrap() panics while the guard
\* of the statement is alive, and nothing drops it
unwrap_panic ==
    /\ pc[Main] \in {"write_fmt", "unlock"}
    /\ Running(Main)
    /\ suspended' = suspended \cup {Main}
    /\ access' = NoAccess
    /\ UNCHANGED <<buffer, column_position, color_code, locked, pc, stack, loc, once>>
    /\ UNCHANGED <<op, pre, log, scrolls, nlrun, run, lastput, work, logby, acq, inits>>

\* fn panic(info): println!("{}", info);
panic_handler ==
    /\ Main \in suspended
    /\ op[Handler] = NoOp
    /\ EnterPrint(Handler, <<Info>>, TRUE)

\* fn panic(info): loop {}
Halted == pc[Handler] = "idle" /\ op[Handler] # NoOp

halt ==
    /\ Halted
    /\ UNCHANGED vars

\* the steps of _print by a caller that is running
PrintStep(p) ==
    /\ Running(p)
    /\ \/ Lock(p)
       \/ write_fmt(p)
       \/ WriterStep(p)
       \/ Unlock(p)

NextPanic ==
    \/ \E p \in Threads : \E ln \in BOOLEAN :
          \E frags \in ArgLists(MaxPrint) : Running(p) /\ PrintCall(p, frags, ln)
    \/ panic_explicit
    \/ unwrap_panic
    \/ panic_handler
    \/ halt
    \/ \E p \in Callers : Running(p) /\ Lock(p)
    \/ \E p \in Callers : Running(p) /\ Spin(p)
    \/ \E p \in Callers : Running(p) /\ write_fmt(p)
    \/ \E p \in Callers : Running(p) /\ WriterStep(p)
    \/ \E p \in Callers : Running(p) /\ Unlock(p)

\* The processor keeps executing the code of every caller that is running.
FairPanic ==
    /\ WF_vars(panic_handler)
    /\ \A p \in Callers : WF_vars(PrintStep(p))

SpecPanic == Init /\ [][NextPanic]_vars /\ FairPanic

\* ------------------------------------- an interrupt handler that prints
\* The source installs no interrupt handler; this one is the timer handler
\* the design notes consider: it runs on Main's thread, prints through
\* _print, and returns to the interrupted code.
\* what the handler prints: "."
Tick == <<46>>

\* the interrupt is taken between any two steps of Main
interrupt ==
    /\ suspended = {}
    /\ op[Handler] = NoOp
    /\ suspended' = {Main}
    /\ access' = NoAccess
    /\ UNCHANGED <<buffer, column_position, color_code, locked, pc, stack, loc, once>>
    /\ UNCHANGED <<op, pre, log, scrolls, nlrun, run, lastput, work, logby, acq, inits>>

\* the handler's print!(".")
interrupt_handler ==
    /\ Main \in suspended
    /\ op[Handler] = NoOp
    /\ EnterPrint(Handler, <<Tick>>, FALSE)

\* the handler returns and the interrupted code resumes
interrupt_return ==
    /\ Main \in suspended
    /\ pc[Handler] = "idle"
    /\ op[Handler] # NoOp
    /\ suspended' = {}
    /\ access' = NoAccess
    /\ UNCHANGED <<buffer, column_position, color_code, locked, pc, stack, loc, once>>
    /\ UNCHANGED <<op, pre, log, scrolls, nlrun, run, lastput, work, logby, acq, inits>>

NextInterrupt ==
    \/ \E p \in Threads : \E ln \in BOOLEAN :
          \E frags \in ArgLists(MaxPrint) : Running(p) /\ PrintCall(p, frags, ln)
    \/ interrupt
    \/ interrupt_handler
    \/ interrupt_return
    \/ \E p \in Callers : Running(p) /\ Lock(p)
    \/ \E p \in Callers : Running(p) /\ Spin(p)
    \/ \E p \in Callers : Running(p) /\ write_fmt(p)
    \/ \E p \in Callers : Running(p) /\ WriterStep(p)
    \/ \E p \in Callers : Running(p) /\ Unlock(p)

SpecInterrupt == Init /\ [][NextInterrupt]_vars

\* ------------------------------------------- two texts on a cleared screen
\* "Hi\n" and "Bye"
TextHi == <<72, 105, NEWLINE>>
TextBye == <<66, 121, 101>>
ScenarioTexts == {TextHi, TextBye}

\* A freshly cleared screen: every cell ' ' with the writer's attribute (what
\* BUFFER_HEIGHT runs of new_line leave), and column 0.
InitCleared ==
    /\ color_code \in Colors
    /\ buffer = [r \in Rows |-> [c \in Cols |-> Blank(color_code)]]
    /\ column_position = 0
    /\ locked = FALSE
    /\ once = "COMPLETE"
    /\ inits = 1
    /\ AtRest

\* writer.write_string(t), the nth text since the screen was cleared
ScenarioWrite(t) ==
    LET n == IF op[Owner] = NoOp THEN 0 ELSE op[Owner].nth
    IN  /\ n < MaxTexts
        /\ EnterWriteString([name |-> "write_string", text |-> t, nth |-> n + 1,
                             before |-> IF n = 0 THEN [text |-> <<>>, scrolls |-> 0]
                                        ELSE [text |-> op[Owner].text,
                                              scrolls |-> scrolls]])
        /\ UNCHANGED work

NextScenario ==
    \/ \E t \in ScenarioTexts : ScenarioWrite(t)
    \/ WriterStep(Owner)

SpecScenario == InitCleared /\ [][NextScenario]_vars

\* ------------------------------------------------ every pair of two colors
\* enum Color: Black = 0 .. White = 15
AllColors == Black .. White

\* writer.color_code = ColorCode::new(background, foreground)
NewColorCode(background, foreground) ==
    /\ pc[Owner] = "idle"
    /\ color_code' = ColorCodeNew(background, foreground)
    /\ op' = [op EXCEPT ![Owner] = [name |-> "ColorCode::new",
                                    background |-> background,
                                    foreground |-> foreground]]
    /\ access' = NoAccess
    /\ UNCHANGED <<buffer, column_position, locked, pc, stack, loc, once, suspended>>
    /\ UNCHANGED <<pre, log, scrolls, nlrun, run, lastput, work, logby, acq, inits>>

NextColor == \E background \in AllColors : \E foreground \in AllColors :
                 NewColorCode(background, foreground)

SpecColor == Init /\ [][NextColor]_vars

\* ------------------------------------------------------------------ claims
\* p holds the MutexGuard of WRITER: it is past lock() and before the drop
Holds(p) == pc[p] \notin {"idle", "lock", "init"}

\* p took the step
StepBy(p) == pc'[p] # pc[p] \/ loc'[p] # loc[p] \/ stack'[p] # stack[p]

\* C1: at most one caller holds the WRITER lock, the lock is taken while a
\* caller holds it, and every cell read or write is made by the holder, so no
\* cell is mutated while the lock is free.
C1_MutualExclusion ==
    /\ Cardinality({p \in Callers : Holds(p)}) <= 1
    /\ (\E p \in Callers : Holds(p)) => locked
    /\ access.kind # "none" => (Holds(access.by) /\ locked)

\* C1 witness: the holder has just written a cell while another caller waits.
C1_Witness ==
    /\ access.kind = "write"
    /\ \E q \in Callers \ {access.by} : pc[q] = "lock"

\* C2: while a caller is inside write_string, scroll included, a step of any
\* other caller accesses no cell and leaves the grid and the column as they are.
C2_AtomicWriteText ==
    [][\A p \in Callers : InWriteString(p) =>
          \A q \in Callers \ {p} : StepBy(q) =>
              /\ buffer' = buffer
              /\ column_position' = column_position
              /\ access'.kind = "none"
              /\ pc'[q] \in {"idle", "lock"}]_vars

\* C2 witness: a caller is in the middle of a scroll started by its
\* write_string, has moved a cell, and another caller waits for the lock.
C2_Witness ==
    \E p \in Callers :
        /\ InWriteString(p)
        /\ pc[p] \in {"copy_read", "copy_write", "clear_row"}
        /\ access.kind = "write" /\ access.by = p
        /\ \E q \in Callers \ {p} : pc[q] = "lock"

\* C3: every cell access uses a row in 0..height-1 and a column in
\* 0..width-1, and the cell write of write_byte is reached only with the
\* column below width.
C3_AccessInBounds ==
    /\ access.kind # "none" => InBounds(access.row, access.col)
    /\ \A p \in Callers : pc[p] = "put" => column_position < BUFFER_WIDTH

\* C3 witness: write_byte was called with the column equal to width and has
\* written its cell at column 0 of the last row after one scroll.
C3_Witness ==
    /\ op[Owner].name = "write_byte"
    /\ pre.column_position = BUFFER_WIDTH
    /\ scrolls = 1
    /\ access.kind = "write" /\ access.row = BUFFER_HEIGHT - 1 /\ access.col = 0
    /\ pc[Owner] = "idle"

\* C4 as stated: between operations the column is in [0, width).
C4_ColumnBelowWidth ==
    pc[Owner] = "idle" => column_position \in 0 .. (BUFFER_WIDTH - 1)

\* C4 as amended: between operations the column is in [0, width]; it equals
\* width after the last cell of a row is written, until the next byte.
C4_ColumnAtMostWidth ==
    pc[Owner] = "idle" => column_position \in 0 .. BUFFER_WIDTH

\* C4 witness: a write call has returned with the column equal to width.
C4_Witness ==
    /\ pc[Owner] = "idle"
    /\ op[Owner].name \in {"write_byte", "write_string"}
    /\ column_position = BUFFER_WIDTH

\* the byte write_text is to hand on for input byte b
Expected(b) ==
    IF b = NEWLINE \/ (b >= SPACE /\ b <= TILDE) THEN b ELSE PLACEHOLDER

\* C5: write_string(s) calls write_byte once per byte of s, in order, with
\* every byte that is neither newline nor in 0x20..0x7e replaced by 0xFE, and
\* every cell it writes holds the byte handed over, a code in 0x20..0x7e or 0xFE.
C5_TextIsBytes ==
    /\ (pc[Owner] = "idle" /\ op[Owner].name = "write_string") =>
          /\ Len(log) = Len(op[Owner].text)
          /\ \A i \in 1 .. Len(log) : log[i] = Expected(op[Owner].text[i])
    /\ (access.kind = "write" /\ access.text) =>
          /\ access.val.ascii_character = log[Len(log)]
          /\ access.val.ascii_character \in (SPACE .. TILDE) \cup {PLACEHOLDER}

\* C5 witness: write_string has returned from a text of two or more bytes
\* that ends in an unsupported byte, whose cell holds 0xFE.
C5_Witness ==
    /\ pc[Owner] = "idle"
    /\ op[Owner].name = "write_string"
    /\ Len(op[Owner].text) >= 2
    /\ ~Supported(op[Owner].text[Len(op[Owner].text)])
    /\ lastput.val.ascii_character = PLACEHOLDER
    /\ buffer[BUFFER_HEIGHT - 1][lastput.col] = lastput.val

\* the byte written last in a run has been stored and write_byte has returned
RunOfWidthPlusOne ==
    /\ run.active
    /\ Len(run.bytes) = BUFFER_WIDTH + 1
    /\ pc[Owner] \in {"idle", "write_string"}

\* C6: from column 0, width non-newline bytes and one more cause exactly one
\* scroll: rows 1..height-1 move up by one (the last of them holding the width
\* bytes), the last row holds the newest byte and blanks, and column is 1.
C6_WrapScrollsOnce ==
    RunOfWidthPlusOne =>
        /\ run.scrolls = 1
        /\ \A r \in 1 .. (BUFFER_HEIGHT - 2) : buffer[r - 1] = run.base[r]
        /\ \A c \in Cols :
              buffer[BUFFER_HEIGHT - 2][c].ascii_character = run.bytes[c + 1]
        /\ buffer[BUFFER_HEIGHT - 1][0].ascii_character = run.bytes[BUFFER_WIDTH + 1]
        /\ \A c \in Cols \ {0} : buffer[BUFFER_HEIGHT - 1][c].ascii_character = SPACE
        /\ column_position = 1

\* C6 witness: such a run made of printable bytes handed to write_byte one by
\* one, over a grid whose first row was not blank.
C6_Witness ==
    /\ RunOfWidthPlusOne
    /\ pc[Owner] = "idle" /\ op[Owner].name = "write_byte"
    /\ \A i \in 1 .. Len(run.bytes) : run.bytes[i] \in SPACE .. TILDE
    /\ run.base[0][0].ascii_character # SPACE

\* write_byte(b) has returned, b printable
WroteByte ==
    /\ pc[Owner] = "idle"
    /\ op[Owner].name = "write_byte"
    /\ op[Owner].byte \in SPACE .. TILDE

\* the column is one more and every row but the last is as before the call
ColumnPlusOne ==
    /\ column_position = pre.column_position + 1
    /\ \A r \in Rows \ {BUFFER_HEIGHT - 1} : buffer[r] = pre.buffer[r]

\* C7 as stated: write_byte of a printable byte adds 1 to the column and
\* leaves every row other than the last unchanged, in every writer state.
C7_AlwaysColumnPlusOne == WroteByte => ColumnPlusOne

\* C7 as amended: it does so in every state with column < width; with column
\* = width it scrolls once, every row moves up, and the column becomes 1.
C7_ColumnPlusOneBelowWidth ==
    WroteByte =>
        IF pre.column_position < BUFFER_WIDTH
        THEN ColumnPlusOne /\ scrolls = 0
        ELSE /\ scrolls = 1
             /\ column_position = 1
             /\ \A r \in Rows \ {0} : buffer[r - 1] = pre.buffer[r]

\* C7 witness: write_byte('A') has returned from a call made at a column
\* between 1 and width - 1, above rows that are not blank.
C7_Witness ==
    /\ WroteByte
    /\ op[Owner].byte = 65
    /\ pre.column_position \in 1 .. (BUFFER_WIDTH - 1)
    /\ buffer[0][0].ascii_character # SPACE

AllBlank == \A r \in Rows : \A c \in Cols : buffer[r][c] = ScreenChar(SPACE, color_code)

\* C8: new_line leaves column 0 and the grid one row up with a blank last row,
\* the former first row gone; after height runs of new_line in a row every
\* cell is ' ' with the current attribute.
C8_NewLineClears ==
    /\ (pc[Owner] = "idle" /\ op[Owner].name = "new_line") =>
          /\ column_position = 0
          /\ \A r \in Rows \ {0} : buffer[r - 1] = pre.buffer[r]
          /\ \A c \in Cols : buffer[BUFFER_HEIGHT - 1][c] = ScreenChar(SPACE, color_code)
    /\ (nlrun >= 1 /\ pc[Owner] = "idle") => column_position = 0
    /\ nlrun >= BUFFER_HEIGHT => AllBlank

\* C8 witness: new_line has returned for the height-th time in a row, and
\* before this last call the first row still held something other than blanks.
C8_Witness ==
    /\ pc[Owner] = "idle" /\ op[Owner].name = "new_line"
    /\ nlrun = BUFFER_HEIGHT
    /\ \E c \in Cols : pre.buffer[0][c].ascii_character # SPACE

\* C9: assigning the attribute changes no cell; after write_byte or new_line
\* every cell that was on the surface before the call is, attribute included,
\* where the call's scrolls moved it, and only the cells the call wrote or
\* cleared carry the current attribute.
C9_AttributeNotRetroactive ==
    pc[Owner] = "idle" =>
        /\ op[Owner].name = "color" => buffer = pre.buffer
        /\ op[Owner].name \in {"write_byte", "new_line"} =>
              \A r \in Rows : \A c \in Cols :
                  IF /\ r + scrolls <= BUFFER_HEIGHT - 1
                     /\ ~(scrolls = 0 /\ r = BUFFER_HEIGHT - 1 /\ c = pre.column_position)
                  THEN buffer[r][c] = pre.buffer[r + scrolls][c]
                  ELSE buffer[r][c].color_code = color_code

\* C9 witness: a cell written with one attribute has been moved up by a
\* scroll made after the attribute was changed, and keeps the earlier one.
C9_Witness ==
    /\ pc[Owner] = "idle"
    /\ op[Owner].name \in {"write_byte", "new_line"}
    /\ scrolls = 1
    /\ \E c \in Cols :
          /\ buffer[BUFFER_HEIGHT - 2][c].color_code \in Colors \ {color_code}
          /\ buffer[BUFFER_HEIGHT - 2][c].ascii_character # SPACE

RECURSIVE ExpectedText(_)
ExpectedText(t) ==
    IF t = <<>> THEN <<>> ELSE <<Expected(Head(t))>> \o ExpectedText(Tail(t))

\* p's text is not empty and does not end in a line break
EndsInGlyph(p) ==
    /\ op[p].text # <<>>
    /\ op[p].text[Len(op[p].text)] # NEWLINE

\* C10: a print call holds the lock and hands write_byte the bytes of
\* write_text(text); a println call hands it those and then one line break,
\* so that it ends with column 0, a blank last row and the last glyph of the
\* text on the second-to-last row. print leaves that glyph before the cursor.
C10_PrintIsWriteText ==
    \A p \in Callers : pc[p] = "unlock" =>
        /\ locked
        /\ op[p].name = "print" =>
              /\ log = ExpectedText(op[p].text)
              /\ EndsInGlyph(p) =>
                    /\ column_position = lastput.col + 1
                    /\ buffer[BUFFER_HEIGHT - 1][lastput.col] = lastput.val
                    /\ lastput.val.ascii_character
                          = Expected(op[p].text[Len(op[p].text)])
        /\ op[p].name = "println" =>
              /\ log = Append(ExpectedText(op[p].text), NEWLINE)
              /\ column_position = 0
              /\ \A c \in Cols :
                    buffer[BUFFER_HEIGHT - 1][c] = ScreenChar(SPACE, color_code)
              /\ EndsInGlyph(p) =>
                    /\ buffer[BUFFER_HEIGHT - 2][lastput.col] = lastput.val
                    /\ lastput.val.ascii_character
                          = Expected(op[p].text[Len(op[p].text)])

\* C10 witness: a println of a text ending in a glyph has written everything
\* and is about to release the lock.
C10_Witness ==
    \E p \in Callers :
        /\ pc[p] = "unlock"
        /\ op[p].name = "println"
        /\ EndsInGlyph(p)

\* new_line has run once as a whole call: called directly, or by write_byte('\n')
NewLineRan ==
    /\ pc[Owner] = "idle"
    /\ \/ op[Owner].name = "new_line"
       \/ op[Owner].name = "write_byte" /\ op[Owner].byte = NEWLINE

\* C16: new_line leaves in row r-1 the cells row r held (characters and
\* attributes), for every r from 1 to height-1; every cell of the last row is
\* ' ' with the current attribute; the column is 0; the attribute is the one
\* the writer had before.
C16_NewLineShiftsUp ==
    NewLineRan =>
        /\ scrolls = 1
        /\ \A r \in Rows \ {0} : \A c \in Cols : buffer[r - 1][c] = pre.buffer[r][c]
        /\ \A c \in Cols :
              /\ buffer[BUFFER_HEIGHT - 1][c].ascii_character = SPACE
              /\ buffer[BUFFER_HEIGHT - 1][c].color_code = color_code
        /\ column_position = 0
        /\ color_code = pre.color_code

\* C16 witness: new_line ran from a column other than 0 with the attribute
\* changed since the last row was written, so that the row moved up carries
\* another attribute than the cleared row.
C16_Witness ==
    /\ NewLineRan
    /\ pre.column_position > 0
    /\ pre.buffer[BUFFER_HEIGHT - 1][0].ascii_character # SPACE
    /\ pre.buffer[BUFFER_HEIGHT - 1][0].color_code # color_code
    /\ buffer[BUFFER_HEIGHT - 2][0] = pre.buffer[BUFFER_HEIGHT - 1][0]

\* exactly width bytes, none a newline, have been written since column 0
FilledRow ==
    /\ run.active
    /\ Len(run.bytes) = BUFFER_WIDTH
    /\ pc[Owner] \in {"idle", "write_string"}

\* write_byte has returned from a call made with the column at the width
WroteAtWidth ==
    /\ pc[Owner] = "idle"
    /\ op[Owner].name = "write_byte"
    /\ pre.column_position = BUFFER_WIDTH

\* C18: after width non-newline bytes from column 0 nothing has scrolled and
\* the column equals the width; the next byte scrolls exactly once: a newline
\* leaves the full row right above an all-blank last row and column 0, any
\* other byte lands at column 0 of the last row.
C18_WrapDeferred ==
    /\ FilledRow =>
          /\ run.scrolls = 0
          /\ column_position = BUFFER_WIDTH
          /\ \A c \in Cols :
                buffer[BUFFER_HEIGHT - 1][c].ascii_character = run.bytes[c + 1]
    /\ WroteAtWidth =>
          /\ scrolls = 1
          /\ buffer[BUFFER_HEIGHT - 2] = pre.buffer[BUFFER_HEIGHT - 1]
          /\ IF op[Owner].byte = NEWLINE
             THEN /\ column_position = 0
                  /\ \A c \in Cols : buffer[BUFFER_HEIGHT - 1][c] = Blank(color_code)
             ELSE /\ column_position = 1
                  /\ lastput.col = 0
                  /\ buffer[BUFFER_HEIGHT - 1][0] = ScreenChar(op[Owner].byte, color_code)
                  /\ \A c \in Cols \ {0} : buffer[BUFFER_HEIGHT - 1][c] = Blank(color_code)

\* C18 witness: a newline was written with the column at the width, after a
\* row of width printable bytes; that row is now the second-to-last row.
C18_Witness ==
    /\ WroteAtWidth
    /\ op[Owner].byte = NEWLINE
    /\ \A c \in Cols : pre.buffer[BUFFER_HEIGHT - 1][c].ascii_character \in {65, TILDE}
    /\ buffer[BUFFER_HEIGHT - 2] = pre.buffer[BUFFER_HEIGHT - 1]


\* "Bye" has been written right after "Hi\n", the first text on the cleared screen
WroteHiThenBye ==
    /\ pc[Owner] = "idle"
    /\ op[Owner].name = "write_string"
    /\ op[Owner].nth = 2
    /\ op[Owner].text = TextBye
    /\ op[Owner].before.text = TextHi

\* the glyphs of row r, as a sequence
Glyphs(r) == [i \in 1 .. BUFFER_WIDTH |-> buffer[r][i - 1].ascii_character]

\* t followed by blanks up to the width
Padded(t) == [i \in 1 .. BUFFER_WIDTH |-> IF i <= Len(t) THEN t[i] ELSE SPACE]

\* C14: "Hi\n" then "Bye", written with write_string to a freshly cleared
\* screen at column 0, scroll exactly once and leave 'H','i' at columns 0-1
\* of the second-to-last row, 'B','y','e' at columns 0-2 of the last row,
\* blanks in every other cell of the two rows, and column 3.
C14_HiThenBye ==
    WroteHiThenBye =>
        /\ op[Owner].before.scrolls + scrolls = 1
        /\ Glyphs(BUFFER_HEIGHT - 2) = Padded(<<72, 105>>)
        /\ Glyphs(BUFFER_HEIGHT - 1) = Padded(<<66, 121, 101>>)
        /\ column_position = 3

\* C14 witness: the two texts have been written in that order, and the 'e'
\* of "Bye" is on the last row.
C14_Witness ==
    /\ WroteHiThenBye
    /\ buffer[BUFFER_HEIGHT - 1][2].ascii_character = 101
    /\ buffer[BUFFER_HEIGHT - 2][0].ascii_character = 72


\* C15: for each of the 16 x 16 pairs, ColorCode::new gives the byte
\* background * 16 + foreground: it fits in 8 bits, its low nibble is the
\* foreground and its high nibble the background, and no other pair gives it.
C15_AttributeByte ==
    op[Owner].name = "ColorCode::new" =>
        LET background == op[Owner].background
            foreground == op[Owner].foreground
        IN  /\ color_code = background * 16 + foreground
            /\ color_code \in 0 .. 255
            /\ color_code % 16 = foreground
            /\ color_code \div 16 = background
            /\ \A b \in AllColors : \A f \in AllColors :
                  ColorCodeNew(b, f) = color_code => b = background /\ f = foreground

\* C15 witness: the pair with the largest byte, White on White, was packed.
C15_Witness ==
    /\ op[Owner].name = "ColorCode::new"
    /\ op[Owner].background = White /\ op[Owner].foreground = White
    /\ color_code = 255


\* C13: WRITER is built on the first access and once: nothing is built while
\* no caller has called, the initialiser has run at most once however the
\* callers' first accesses overlap, no caller is past lock() before it has
\* run, and until the first acquisition the one instance has column 0, the
\* attribute Yellow on Black and a free lock.
C13_BuiltOnce ==
    /\ (\A p \in Callers : op[p] = NoOp) => once = "INCOMPLETE"
    /\ inits = IF once = "COMPLETE" THEN 1 ELSE 0
    /\ Cardinality({p \in Callers : pc[p] = "init"}) = IF once = "RUNNING" THEN 1 ELSE 0
    /\ \A p \in Callers : Holds(p) => once = "COMPLETE"
    /\ (once = "COMPLETE" /\ \A p \in Callers : acq[p] = 0) =>
          /\ column_position = 0
          /\ color_code = Black * 16 + Yellow
          /\ ~locked
    /\ once # "COMPLETE" => column_position = NotBuilt /\ access = NoAccess

\* C13 witness: one caller runs the initialiser while another caller's first
\* access waits for it.
C13_Witness ==
    \E p \in Callers : \E q \in Callers \ {p} :
        /\ pc[p] = "init"
        /\ pc[q] = "lock"
        /\ once = "RUNNING"

\* what p's call hands to write_byte, from first to last byte
CallBytes(p) ==
    IF op[p].name = "println" THEN Append(ExpectedText(op[p].text), NEWLINE)
    ELSE ExpectedText(op[p].text)

\* C19: a print or println call acquires the lock once and holds it until
\* its last byte: while it is between lock() and the drop of the guard the
\* lock is taken, it has been acquired once by this call, and the bytes
\* handed to write_byte since then are this caller's and are the first bytes
\* of its own text and line break, in order; at the drop they are all of them.
C19_OneAcquisition ==
    \A p \in Callers :
        /\ Holds(p) =>
              /\ locked
              /\ acq[p] = 1
              /\ \A i \in 1 .. Len(logby) : logby[i] = p
              /\ Len(log) <= Len(CallBytes(p))
              /\ log = SubSeq(CallBytes(p), 1, Len(log))
        /\ pc[p] = "unlock" => Len(log) = Len(CallBytes(p))
        /\ (pc[p] = "idle" /\ op[p] # NoOp) => acq[p] = 1

\* C19 witness: a println of two fragments has written its first fragment and
\* not yet the second, while another caller's println waits for the lock.
C19_Witness ==
    \E p \in Callers : \E q \in Callers \ {p} :
        /\ pc[p] = "write_fmt"
        /\ op[p].name = "println" /\ op[q].name = "println"
        /\ Len(log) = 1
        /\ Len(loc[p].args) = 2
        /\ pc[q] = "lock"
        /\ once = "COMPLETE"


\* C11 as stated: whenever the panic path is entered, inside a print call
\* or outside, the handler eventually has rendered the description and halts.
C11_PanicRendersAndHalts == (Main \in suspended) ~> Halted

\* C12 as stated: every call releases the lock before it is left, so that
\* whenever the lock is taken a running caller holds it and a waiter will
\* get it.
C12_LockHeldByRunningCall ==
    locked => \E p \in Callers : Holds(p) /\ Running(p)


\* the handler runs on top of a print call of Main that holds the lock
InterruptedHolder == Main \in suspended /\ Holds(Main)

\* C17: once a handler that prints has interrupted a print call holding the
\* lock, every later step leaves things so: the interrupted call stays where
\* it is with the lock taken, the handler does not get past lock(), and no
\* cell and no writer field changes.
C17_InterruptDeadlock ==
    [][InterruptedHolder =>
          /\ InterruptedHolder'
          /\ locked'
          /\ pc'[Main] = pc[Main]
          /\ pc'[Handler] \in {"idle", "lock"}
          /\ buffer' = buffer
          /\ column_position' = column_position
          /\ access'.kind = "none"]_vars

\* C17 witness: the handler waits for the lock on top of a print call that
\* was interrupted in the middle of a scroll.
C17_Witness ==
    /\ InterruptedHolder
    /\ pc[Main] = "copy_write"
    /\ pc[Handler] = "lock"
    /\ ~(ENABLED Lock(Handler))


====
